---- MODULE Spec2Model ----
(***************************************************************************)
(* A model of the search-api service.                                      *)
(*                                                                         *)
(*   Spec      OmniSearchService: add_engine and one search call, with the *)
(*             engine calls and the enrichment tasks as separate steps.    *)
(*   SpecHttp  POST /v1/search: concurrent requests over the shared cache, *)
(*             each handler a sequence of steps, one per Redis command and *)
(*             one for the search.                                         *)
(*   SpecAuth  the access decision of the three routes.                    *)
(***************************************************************************)
EXTENDS Integers, Sequences, FiniteSets, TLC

\* Python's None (an unset content or index field).
None == "None"

(***************************************************************************)
(* Bounds of the model.                                                    *)
(***************************************************************************)
\* The longest result list an engine returns.
MaxResults == 2
\* The links engines return (title and snippet travel with the link).
Links == {"u1", "u2"}
\* The names engines are registered under.
EngineNames == {"google", "duckduckgo"}

\* All sequences over S of length at most n.
SeqUpTo(S, n) == UNION {[1..k -> S] : k \in 0..n}

\* What an engine's search can return: a list of raw items.
EngineOutputs == SeqUpTo(Links, MaxResults)

VARIABLES
    engines,        \* OmniSearchService.engines: the names, in dict order
    fetch_content,  \* the fetch_content keyword of the running search
    phase,          \* "setup", "loop", "searching", "enriching", "done"
    pos,            \* the position of the for loop in engines (1-based)
    tasks,          \* the enrichment tasks of the running gather
    all_results,    \* search's all_results
    hist,           \* per element of all_results: whether an enrichment task
                    \* ran to its end on it (history, read by no action)
    calls,          \* per engine name: the state and outcome of its search
    reqs,           \* per request of POST /v1/search: the handler's locals
    cache,          \* the Redis keys that are set: key, value, ttl
    API_KEY,        \* os.environ API_KEY ("" when not set)
    bearer_code,    \* the status HTTPBearer rejects with
    served          \* the last request served and its status

svcVars == <<engines, fetch_content, phase, pos, tasks, all_results, hist,
             calls>>

httpVars == <<reqs, cache>>

authVars == <<API_KEY, bearer_code, served>>

vars == <<svcVars, httpVars, authVars>>

(***************************************************************************)
(* search/search.py: the result shape and the engines.                     *)
(***************************************************************************)
\* The source_engine label each adapter writes into its results.
SourceLabel(name) ==
    CASE name = "google" -> "Google"
      [] name = "duckduckgo" -> "DuckDuckGo"
      [] OTHER -> "Bing"

\* SearchResult as an adapter builds it: content and index default to None.
SearchResult(link, label) ==
    [link |-> link, content |-> None, source_engine |-> label, index |-> None]

\* _parse_results: one SearchResult per raw item, in the order received.
ParseResults(name, items) ==
    [i \in 1..Len(items) |-> SearchResult(items[i], SourceLabel(name))]

\* A mutant of Enumerate: the index counts from one.
EnumerateFromOne(results) ==
    [i \in 1..Len(results) |-> [results[i] EXCEPT !.index = i]]

\* for i, r in enumerate(results): r.index = i
Enumerate(results) ==
    [i \in 1..Len(results) |-> [results[i] EXCEPT !.index = i - 1]]

\* self.engines[name] = engine: a dict keeps a key's first position.
add_engine(registry, name) ==
    IF \E i \in 1..Len(registry) : registry[i] = name
    THEN registry
    ELSE Append(registry, name)

\* A mutant of EngineAt: the registry is walked backwards.
EngineAtReversed(registry, p) == registry[Len(registry) - p + 1]

\* for engine_name, engine in self.engines.items(): the p-th engine visited.
EngineAt(registry, p) == registry[p]

(***************************************************************************)
(* search/fetcher.py and search/llm.py: the collaborators of enrichment.   *)
(***************************************************************************)
\* What the network does to a page fetch; "raise" is a ContentFetcher whose
\* fetch lets an exception out.
FetchOutcomes == {"ok", "error", "raise"}
\* What the completion call does.
CompletionOutcomes == {"reply", "raise"}

\* RequestsHtmlFetcher.fetch: a failure is returned as a value, not raised.
fetch(url, net) ==
    IF net = "ok"
    THEN [url |-> url, clean_text |-> "text", status_code |-> 200, error |-> ""]
    ELSE [url |-> url, clean_text |-> "", status_code |-> 0, error |-> "err"]

\* c.choices[0].message.content of a completion over the given user text.
CompletionReply(text) == "summary"

(***************************************************************************)
(* _fetch_content_by_search_result, one task per result.                   *)
(***************************************************************************)
NewTask(r) == [r |-> r, pc |-> "fetch", text |-> None, ok |-> FALSE]

\* A mutant of TaskCaught: the exception leaves the task.
TaskRaises(t) == [t EXCEPT !.pc = "raised"]

\* except Exception: print, return r.
TaskCaught(t) == [t EXCEPT !.pc = "done"]

\* raw_content = await asyncio.to_thread(self.fetcher.fetch, r.link)
\* content = raw_content.clean_text
TaskAfterFetch(t, net) ==
    IF net = "raise"
    THEN TaskCaught(t)
    ELSE [t EXCEPT !.pc = "completion", !.ok = (fetch(t.r.link, net).error = ""),
                   !.text = fetch(t.r.link, net).clean_text]

\* c = await self.llm_cli.completion([...]); r.content = c.choices[0]...
TaskAfterCompletion(t, out) ==
    IF out = "raise"
    THEN TaskCaught(t)
    ELSE [t EXCEPT !.pc = "done", !.r.content = CompletionReply(t.text)]

\* A mutant of GatherReady: gather returns as soon as one task has ended.
GatherReadyOnFirst(ts) ==
    \/ ts = <<>>
    \/ \E i \in 1..Len(ts) : ts[i].pc \in {"done", "raised"}

\* await asyncio.gather(*tasks) returns when every task has ended, or raises
\* as soon as one task raises.
GatherReady(ts) ==
    \/ \A i \in 1..Len(ts) : ts[i].pc = "done"
    \/ \E i \in 1..Len(ts) : ts[i].pc = "raised"

\* _fetch_content: the gathered results in task order, [] when gather raises.
FetchContent(ts) ==
    IF \E i \in 1..Len(ts) : ts[i].pc = "raised"
    THEN <<>>
    ELSE [i \in 1..Len(ts) |-> ts[i].r]

\* For each gathered result: whether its task had ended when gather returned.
TaskHist(ts) ==
    IF \E i \in 1..Len(ts) : ts[i].pc = "raised"
    THEN <<>>
    ELSE [i \in 1..Len(ts) |-> ts[i].pc = "done"]

NoHist(results) == [i \in 1..Len(results) |-> FALSE]

(***************************************************************************)
(* OmniSearchService.                                                      *)
(***************************************************************************)
\* A mutant of PosAfterError: the exception ends the loop, as it would with
\* the try around the for statement.
PosAfterErrorEndsLoop(registry, p) == Len(registry) + 1

\* except Exception inside the loop body: the loop goes on to the next engine.
PosAfterError(registry, p) == p + 1

NotCalled == [st |-> "notcalled", out |-> <<>>]

SvcInit ==
    /\ engines = <<>>
    /\ fetch_content = FALSE
    /\ phase = "setup"
    /\ pos = 1
    /\ tasks = <<>>
    /\ all_results = <<>>
    /\ hist = <<>>
    /\ calls = [e \in EngineNames |-> NotCalled]

\* o.add_engine(name, engine)
AddEngine(name) ==
    /\ phase = "setup"
    /\ engines' = add_engine(engines, name)
    /\ UNCHANGED <<fetch_content, phase, pos, tasks, all_results, hist, calls>>
    /\ UNCHANGED <<httpVars, authVars>>

\* o.search(query, fetch_content=fc): all_results = [], the loop begins.
SearchBegin(fc) ==
    /\ phase = "setup"
    /\ fetch_content' = fc
    /\ phase' = "loop"
    /\ pos' = 1
    /\ all_results' = <<>>
    /\ UNCHANGED <<engines, tasks, hist, calls>>
    /\ UNCHANGED <<httpVars, authVars>>

\* results = await engine.search(query, **kwargs): the call is made.
EngineCall ==
    /\ phase = "loop"
    /\ pos <= Len(engines)
    /\ phase' = "searching"
    /\ calls' = [calls EXCEPT ![EngineAt(engines, pos)].st = "inflight"]
    /\ UNCHANGED <<engines, fetch_content, pos, tasks, all_results, hist>>
    /\ UNCHANGED <<httpVars, authVars>>

\* The engine returns its items; the results are numbered; without
\* fetch_content they are appended, with it the enrichment tasks are made.
EngineReturn(items) ==
    /\ phase = "searching"
    /\ LET e == EngineAt(engines, pos)
           results == Enumerate(ParseResults(e, items))
       IN /\ calls' = [calls EXCEPT ![e] = [st |-> "returned", out |-> items]]
          /\ IF fetch_content
             THEN /\ tasks' = [i \in 1..Len(results) |-> NewTask(results[i])]
                  /\ phase' = "enriching"
                  /\ UNCHANGED <<all_results, hist, pos>>
             ELSE /\ all_results' = all_results \o results
                  /\ hist' = hist \o NoHist(results)
                  /\ pos' = pos + 1
                  /\ phase' = "loop"
                  /\ UNCHANGED tasks
    /\ UNCHANGED <<engines, fetch_content>>
    /\ UNCHANGED <<httpVars, authVars>>

\* The engine raises: except Exception, print, next engine.
EngineRaise ==
    /\ phase = "searching"
    /\ calls' = [calls EXCEPT ![EngineAt(engines, pos)].st = "raised"]
    /\ pos' = PosAfterError(engines, pos)
    /\ phase' = "loop"
    /\ UNCHANGED <<engines, fetch_content, tasks, all_results, hist>>
    /\ UNCHANGED <<httpVars, authVars>>

\* One task's page fetch ends.
TaskFetch(i, net) ==
    /\ phase = "enriching"
    /\ i \in 1..Len(tasks)
    /\ tasks[i].pc = "fetch"
    /\ tasks' = [tasks EXCEPT ![i] = TaskAfterFetch(tasks[i], net)]
    /\ UNCHANGED <<engines, fetch_content, phase, pos, all_results, hist,
                   calls>>
    /\ UNCHANGED <<httpVars, authVars>>

\* One task's completion call ends.
TaskCompletion(i, out) ==
    /\ phase = "enriching"
    /\ i \in 1..Len(tasks)
    /\ tasks[i].pc = "completion"
    /\ tasks' = [tasks EXCEPT ![i] = TaskAfterCompletion(tasks[i], out)]
    /\ UNCHANGED <<engines, fetch_content, phase, pos, all_results, hist,
                   calls>>
    /\ UNCHANGED <<httpVars, authVars>>

\* gather ends; results = await self._fetch_content(results);
\* all_results.extend(results).
GatherDone ==
    /\ phase = "enriching"
    /\ GatherReady(tasks)
    /\ all_results' = all_results \o FetchContent(tasks)
    /\ hist' = hist \o TaskHist(tasks)
    /\ tasks' = <<>>
    /\ pos' = pos + 1
    /\ phase' = "loop"
    /\ UNCHANGED <<engines, fetch_content, calls>>
    /\ UNCHANGED <<httpVars, authVars>>

\* return all_results
SearchReturn ==
    /\ phase = "loop"
    /\ pos > Len(engines)
    /\ phase' = "done"
    /\ UNCHANGED <<engines, fetch_content, pos, tasks, all_results, hist,
                   calls>>
    /\ UNCHANGED <<httpVars, authVars>>

(***************************************************************************)
(* main.py: the cache key of POST /v1/search.  Strings are sequences of    *)
(* one-character strings, so that f-string concatenation is \o.            *)
(***************************************************************************)
Whitespace == {" "}

RECURSIVE LStrip(_)
LStrip(q) ==
    IF q # <<>> /\ Head(q) \in Whitespace THEN LStrip(Tail(q)) ELSE q

RECURSIVE RStrip(_)
RStrip(q) ==
    IF q # <<>> /\ q[Len(q)] \in Whitespace
    THEN RStrip(SubSeq(q, 1, Len(q) - 1))
    ELSE q

\* req.query.strip()
Strip(q) == RStrip(LStrip(q))

Digit(d) ==
    CASE d = 0 -> "0" [] d = 1 -> "1" [] d = 2 -> "2" [] d = 3 -> "3"
      [] d = 4 -> "4" [] d = 5 -> "5" [] d = 6 -> "6" [] d = 7 -> "7"
      [] d = 8 -> "8" [] d = 9 -> "9"

\* f"{req.max_results}": the decimal digits of an int.
RECURSIVE IntStr(_)
IntStr(n) ==
    IF n < 0 THEN <<"-">> \o IntStr(0 - n)
    ELSE IF n < 10 THEN <<Digit(n)>>
    ELSE IntStr(n \div 10) \o <<Digit(n % 10)>>

\* f"{req.fetch_content}"
BoolStr(b) ==
    IF b THEN <<"T", "r", "u", "e">> ELSE <<"F", "a", "l", "s", "e">>

\* The characters of an engine name.
NameChars(name) ==
    CASE name = "google" -> <<"g", "o", "o", "g", "l", "e">>
      [] name = "duckduckgo" -> <<"d", "u", "c", "k", "d", "u", "c", "k", "g", "o">>
      [] OTHER -> <<"b", "i", "n", "g">>

RECURSIVE JoinRepr(_)
JoinRepr(l) ==
    IF l = <<>> THEN <<>>
    ELSE IF Len(l) = 1 THEN <<"'">> \o NameChars(l[1]) \o <<"'">>
    ELSE <<"'">> \o NameChars(l[1]) \o <<"'", ",", " ">> \o JoinRepr(Tail(l))

\* f"{req.search_engines}": the repr of a list of strings.
ListRepr(l) == <<"[">> \o JoinRepr(l) \o <<"]">>

\* key = f"{req.query.strip()}{req.max_results}{req.fetch_content}{req.search_engines}"
PreHashKey(req) ==
    Strip(req.query) \o IntStr(req.max_results) \o BoolStr(req.fetch_content)
        \o ListRepr(req.search_engines)

\* key = f"search_api.search.{hashlib.md5(key.encode()).hexdigest()}", with
\* MD5 taken to be free of collisions: equal digests mean equal inputs.
CacheKey(req) == [prefix |-> "search_api.search.", md5_of |-> PreHashKey(req)]

(***************************************************************************)
(* cache/redis.py and the json calls of the handler.                       *)
(***************************************************************************)
\* json.dumps([result.model_dump() for result in results])
JsonDumps(results) == [json |-> results]

\* json.loads(cached), cached being the set RedisGet gives.
JsonLoads(cached) == (CHOOSE v \in cached : TRUE).json

\* RedisClient.get: the value of a key that is set, as the set holding it;
\* the empty set stands for None.
RedisGet(store, key) == {e.value : e \in {x \in store : x.key = key}}

\* A mutant of RedisSetex: the command is lost.
RedisSetexLost(store, key, ttl, value, who) == store

\* RedisClient.setex: the key is set to the value, to expire after ttl
\* seconds; who names the request that wrote it (history).
RedisSetex(store, key, ttl, value, who) ==
    {e \in store : e.key # key}
        \cup {[key |-> key, value |-> value, ttl |-> ttl, writer |-> who]}

\* The request that wrote the entry a get reads (history).
WriterOf(store, key) == (CHOOSE e \in store : e.key = key).writer

(***************************************************************************)
(* Bounds of the model of POST /v1/search.                                 *)
(***************************************************************************)
\* The number of requests.
NumReqs == 2
\* int(os.environ.get("SEARCH_TTL", 30))
SEARCH_TTL == 30

\* The item lists an engine returns to a request.
HttpItems == {<<>>, <<"u1">>, <<"u2">>}

HttpQueries == {<<"x">>, <<"x", "1">>, <<" ", "x">>}
HttpMaxResults == {1, 11}

\* The bodies of POST /v1/search: every query with every max_results, and
\* one of them with fetch_content set.
SearchRequests ==
    [query : HttpQueries, max_results : HttpMaxResults,
     fetch_content : {FALSE}, search_engines : {<<"duckduckgo">>}]
    \cup
    [query : {<<"x">>}, max_results : {11},
     fetch_content : {TRUE}, search_engines : {<<"duckduckgo">>}]

\* What one engine and the enrichment of its results do during o.search:
\* whether the engine raises, what it returns, and per result whether the
\* enrichment sets its content.
EngineOutcomes ==
    UNION {[raised : BOOLEAN, items : {items},
            content : [1..Len(items) -> BOOLEAN]] : items \in HttpItems}

(***************************************************************************)
(* main.py: the handler of POST /v1/search.                                *)
(***************************************************************************)
\* for engine in req.search_engines: o.add_engine(...) for "google" and
\* "duckduckgo"; any other name is passed over.
RECURSIVE RegisterAll(_, _)
RegisterAll(registry, names) ==
    IF names = <<>> THEN registry
    ELSE RegisterAll(IF Head(names) \in {"google", "duckduckgo"}
                     THEN add_engine(registry, Head(names))
                     ELSE registry,
                     Tail(names))

\* One pass of the loop body of OmniSearchService.search for engine e: what
\* it adds to all_results under outcome o.
EngineRun(e, o, fc) ==
    IF o.raised
    THEN <<>>
    ELSE LET rs == Enumerate(ParseResults(e, o.items))
         IN IF fc
            THEN [i \in 1..Len(rs) |->
                     IF o.content[i]
                     THEN [rs[i] EXCEPT !.content = CompletionReply("text")]
                     ELSE rs[i]]
            ELSE rs

\* OmniSearchService.search from entry to return: the lists it can return,
\* one engine after the other in registry order.
RECURSIVE OmniSearch(_, _)
OmniSearch(registry, fc) ==
    IF registry = <<>> THEN {<<>>}
    ELSE {a \o b : a \in {EngineRun(Head(registry), o, fc) : o \in EngineOutcomes},
                   b \in OmniSearch(Tail(registry), fc)}

\* What o.search can return to the handler of a request.
SearchResultsOf(req) ==
    OmniSearch(RegisterAll(<<>>, req.search_engines), req.fetch_content)

\* if cached:
CacheHit(cached) == cached # {}

\* A mutant of ShouldCache: a single result is not worth caching.
ShouldCacheSeveral(results) == Len(results) > 1

\* if len(results) > 0:
ShouldCache(results) == Len(results) > 0

\* return {"data": ..., "code": 0, "message": "success"}
Success(data) == [data |-> data, code |-> 0, message |-> "success"]

\* No response yet.
Pending == [data |-> <<>>, code |-> -1, message |-> ""]

\* The locals of a handler that has not started.
NoRequest ==
    [query |-> <<>>, max_results |-> 0, fetch_content |-> FALSE,
     search_engines |-> <<>>]

Reqs == 1..NumReqs

Idle ==
    [pc |-> "idle", req |-> NoRequest, key |-> CacheKey(NoRequest),
     cached |-> {}, results |-> <<>>, response |-> Pending, provider_calls |-> 0,
     fresh |-> {}, from |-> 0, lapsed |-> FALSE]

HttpInit ==
    /\ reqs = [r \in Reqs |-> Idle]
    /\ cache = {}

\* A request arrives (past the auth dependency): the key is built and
\* cached = await redis_cli.get(key); on a hit the cached list is returned.
\* Requests are numbered in the order they arrive.  fresh: the requests that
\* had completed by then and whose key has not expired since; from: the
\* writer of the entry read (history).
Receive(r, req) ==
    /\ reqs[r].pc = "idle"
    /\ \A q \in Reqs : q < r => reqs[q].pc # "idle"
    /\ LET key == CacheKey(req)
           cached == RedisGet(cache, key)
           fresh == {q \in Reqs : reqs[q].pc = "done" /\ ~reqs[q].lapsed}
       IN reqs' = [reqs EXCEPT ![r] =
                     IF CacheHit(cached)
                     THEN [@ EXCEPT !.pc = "done", !.req = req, !.key = key,
                                    !.cached = cached, !.fresh = fresh,
                                    !.response = Success(JsonLoads(cached)),
                                    !.from = WriterOf(cache, key)]
                     ELSE [@ EXCEPT !.pc = "search", !.req = req, !.key = key,
                                    !.cached = cached, !.fresh = fresh]]
    /\ UNCHANGED cache
    /\ UNCHANGED <<svcVars, authVars>>

\* o = OmniSearchService(...); the engines are registered; results = await
\* o.search(...); an empty list is returned uncached.
HandlerSearch(r) ==
    /\ reqs[r].pc = "search"
    /\ \E results \in SearchResultsOf(reqs[r].req) :
       LET registry == RegisterAll(<<>>, reqs[r].req.search_engines)
       IN reqs' = [reqs EXCEPT ![r] =
                     IF ShouldCache(results)
                     THEN [@ EXCEPT !.pc = "setex", !.results = results,
                                    !.provider_calls = Len(registry)]
                     ELSE [@ EXCEPT !.pc = "done", !.results = results,
                                    !.provider_calls = Len(registry),
                                    !.response = Success(results)]]
    /\ UNCHANGED cache
    /\ UNCHANGED <<svcVars, authVars>>

\* await redis_cli.setex(key, SEARCH_TTL, json_data); return.
CacheSetex(r) ==
    /\ reqs[r].pc = "setex"
    /\ cache' = RedisSetex(cache, reqs[r].key, SEARCH_TTL,
                           JsonDumps(reqs[r].results), r)
    /\ reqs' = [reqs EXCEPT ![r] =
                  [@ EXCEPT !.pc = "done", !.response = Success(reqs[r].results),
                            !.from = r]]
    /\ UNCHANGED <<svcVars, authVars>>

\* The ttl of a key runs out and Redis drops it.  lapsed: the completed
\* requests that wrote or read the key have seen it expire (history).
Expire ==
    /\ \E e \in cache :
          /\ cache' = cache \ {e}
          /\ reqs' = [q \in Reqs |->
                        IF reqs[q].pc = "done" /\ reqs[q].key = e.key
                        THEN [reqs[q] EXCEPT !.lapsed = TRUE]
                        ELSE reqs[q]]
    /\ UNCHANGED <<svcVars, authVars>>

HttpNext ==
    \/ \E r \in Reqs, req \in SearchRequests : Receive(r, req)
    \/ \E r \in Reqs : HandlerSearch(r)
    \/ \E r \in Reqs : CacheSetex(r)
    \/ Expire


(***************************************************************************)
(* main.py: the routes and the auth dependency.                            *)
(***************************************************************************)
ApiKeys == {"", "k1"}
Routes == {"/", "/v1/health", "/v1/search"}
Schemes == {"Bearer", "bearer", "Basic"}
Tokens == {"k1", "k2", ""}

\* A request: its path and its Authorization header (present or not, and the
\* scheme and the parameter it splits into).
HttpRequests ==
    [path : Routes, has_auth : BOOLEAN, scheme : Schemes, token : Tokens]

Lower(scheme) == IF scheme = "Bearer" THEN "bearer" ELSE scheme

\* security = HTTPBearer(): with auto_error left on, a request without an
\* Authorization header, without a parameter, or with a scheme other than
\* bearer (in any case) is rejected before the dependant runs.
HTTPBearer(rq, code) ==
    IF ~rq.has_auth \/ rq.token = "" THEN code
    ELSE IF Lower(rq.scheme) # "bearer" THEN code
    ELSE 0

\* async def auth(req, c = Depends(security)): 0 to go on, else the status.
auth(rq, key, code) ==
    IF HTTPBearer(rq, code) # 0 THEN HTTPBearer(rq, code)
    ELSE IF rq.path \in {"/", "/v1/health"} THEN 0
    ELSE IF key = "" THEN 0
    ELSE IF rq.scheme # "Bearer" \/ rq.token # key THEN 403
    ELSE 0

\* The status a request is answered with: index and health_check depend on
\* nothing, search depends on auth.
Status(rq, key, code) ==
    IF rq.path \in {"/", "/v1/health"} THEN 200
    ELSE IF auth(rq, key, code) # 0 THEN auth(rq, key, code)
    ELSE 200

NoneServed ==
    [rq |-> [path |-> "/", has_auth |-> FALSE, scheme |-> "Bearer", token |-> ""],
     status |-> 0]

\* bearer_code: HTTPBearer answers a missing or malformed header with 403,
\* and with 401 in later releases of the framework.
AuthInit ==
    /\ API_KEY \in ApiKeys
    /\ bearer_code \in {401, 403}
    /\ served = NoneServed

\* One request is routed and answered.
Serve(rq) ==
    /\ served' = [rq |-> rq, status |-> Status(rq, API_KEY, bearer_code)]
    /\ UNCHANGED <<API_KEY, bearer_code>>
    /\ UNCHANGED <<svcVars, httpVars>>

AuthNext == \E rq \in HttpRequests : Serve(rq)

AuthIdle ==
    /\ API_KEY = ""
    /\ bearer_code = 403
    /\ served = NoneServed

Init == SvcInit /\ HttpInit /\ AuthIdle

Next ==
    \/ \E name \in EngineNames : AddEngine(name)
    \/ \E fc \in BOOLEAN : SearchBegin(fc)
    \/ EngineCall
    \/ \E items \in EngineOutputs : EngineReturn(items)
    \/ EngineRaise
    \/ \E i \in 1..MaxResults, net \in FetchOutcomes : TaskFetch(i, net)
    \/ \E i \in 1..MaxResults, out \in CompletionOutcomes : TaskCompletion(i, out)
    \/ GatherDone
    \/ SearchReturn

Spec == Init /\ [][Next]_vars

\* The service before any request, and the access decisions one by one.
InitAuth == SvcInit /\ HttpInit /\ AuthInit

SpecHttp == Init /\ [][HttpNext]_vars

SpecAuth == InitAuth /\ [][AuthNext]_vars

(***************************************************************************)
(* Properties of OmniSearchService.search, checked under Spec.             *)
(***************************************************************************)
Registered == {engines[i] : i \in 1..Len(engines)}

Finished(e) == calls[e].st \in {"returned", "raised"}

\* A result without its content field.
Core(r) == [link |-> r.link, source_engine |-> r.source_engine, index |-> r.index]

\* The elements of all_results that carry engine e's label, in list order.
ContributionOf(e) ==
    LET mine(r) == r.source_engine = SourceLabel(e)
    IN SelectSeq(all_results, mine)

\* What engine e is due to contribute: nothing when it raised, else its items
\* in the order returned, numbered from 0.
DueFrom(e) ==
    IF calls[e].st = "returned"
    THEN [i \in 1..Len(calls[e].out) |->
             [link |-> calls[e].out[i], source_engine |-> SourceLabel(e),
              index |-> i - 1]]
    ELSE <<>>

RECURSIVE DueInOrder(_)
DueInOrder(registry) ==
    IF registry = <<>>
    THEN <<>>
    ELSE DueFrom(Head(registry)) \o DueInOrder(Tail(registry))

RECURSIVE TotalReturned(_)
TotalReturned(S) ==
    IF S = {}
    THEN 0
    ELSE LET e == CHOOSE x \in S : TRUE
         IN Len(calls[e].out) + TotalReturned(S \ {e})

\* C1: when no engine raises, search returns sum(k_i) results, and the
\* results of engine i carry the indices 0..k_i-1 in the order it returned
\* them, with fetch_content true or false.
C1_CountAndIndices ==
    (phase = "done" /\ \A e \in Registered : calls[e].st = "returned") =>
        /\ Len(all_results) = TotalReturned(Registered)
        /\ \A e \in Registered :
              LET mine == ContributionOf(e)
              IN /\ Len(mine) = Len(calls[e].out)
                 /\ \A i \in 1..Len(mine) :
                       /\ mine[i].index = i - 1
                       /\ mine[i].link = calls[e].out[i]

C1_Witness ==
    /\ phase = "done"
    /\ fetch_content
    /\ Len(engines) = 2
    /\ \A e \in Registered : calls[e].st = "returned"
    /\ Len(calls[engines[1]].out) = 2
    /\ Len(calls[engines[2]].out) = 1
    /\ Len(all_results) = 3

\* C2: when some engines raise, search still returns; each raising engine
\* contributes nothing and every other engine contributes what it returned,
\* numbered as if no engine had raised, wherever the raising engine stands.
C2_RaisingEngineIsolated ==
    (phase = "done" /\ \E e \in Registered : calls[e].st = "raised") =>
        \A e \in Registered :
            /\ Finished(e)
            /\ calls[e].st = "raised" => ContributionOf(e) = <<>>
            /\ calls[e].st = "returned" =>
                  [i \in 1..Len(ContributionOf(e)) |-> Core(ContributionOf(e)[i])]
                      = DueFrom(e)

C2_Witness ==
    /\ phase = "done"
    /\ Len(engines) = 2
    /\ calls[engines[1]].st = "raised"
    /\ calls[engines[2]].st = "returned"
    /\ Len(calls[engines[2]].out) = 2
    /\ Len(all_results) = 2

\* C3: with fetch_content, whatever the fetches and completions do, search
\* returns the results it returns without fetch_content, in the same number
\* and order, differing at most in content.
C3_EnrichmentKeepsResults ==
    (phase = "done" /\ fetch_content) =>
        [i \in 1..Len(all_results) |-> Core(all_results[i])] = DueInOrder(engines)

C3_Witness ==
    /\ phase = "done"
    /\ fetch_content
    /\ Len(all_results) >= 2
    /\ \E i \in 1..Len(all_results) : all_results[i].content = None
    /\ \E i \in 1..Len(all_results) : all_results[i].content # None

\* C5: a task whose page fetch failed, or whose completion failed, leaves
\* content unset; content is set only after a fetch that succeeded.
C5_ContentOnlyAfterGoodFetch ==
    \A i \in 1..Len(tasks) :
        tasks[i].pc = "done" =>
            (tasks[i].r.content # None => tasks[i].ok)

\* C6 as stated: no page fetch or completion call of any result has taken
\* place before the search of every registered engine has completed.
C6_NoEnrichmentBeforeAllSearches ==
    (\E i \in 1..Len(tasks) : tasks[i].pc # "fetch") =>
        \A e \in Registered : Finished(e)

\* C6 as amended: the enrichment of an engine's results starts after that
\* engine's search has returned and has ended for every result before the next
\* engine's search starts and before search returns.
C6_EnrichmentPerEngine ==
    /\ (phase = "enriching" /\ tasks # <<>>) =>
          /\ calls[EngineAt(engines, pos)].st = "returned"
          /\ \A i \in 1..Len(tasks) :
                tasks[i].r.source_engine = SourceLabel(EngineAt(engines, pos))
    /\ phase # "enriching" => tasks = <<>>
    /\ Len(hist) = Len(all_results)
    /\ (fetch_content /\ phase \in {"loop", "searching", "enriching", "done"}) =>
          \A i \in 1..Len(hist) : hist[i]

C6_Witness ==
    /\ phase = "done"
    /\ fetch_content
    /\ Len(engines) = 2
    /\ \A e \in Registered : ContributionOf(e) # <<>>
    /\ \A i \in 1..Len(hist) : hist[i]

\* C8: the engines are called one at a time in registry order, and the list
\* returned is the engines' lists one after the other in that order, nothing
\* reordered, merged or dropped as a duplicate.
C8_SequentialInRegistryOrder ==
    /\ \A i, j \in 1..Len(engines) :
          (i < j /\ calls[engines[j]].st # "notcalled") => Finished(engines[i])
    /\ Cardinality({e \in EngineNames : calls[e].st = "inflight"}) <= 1
    /\ phase = "done" =>
          [i \in 1..Len(all_results) |-> Core(all_results[i])] = DueInOrder(engines)

C8_Witness ==
    /\ phase = "done"
    /\ Len(engines) = 2
    /\ calls[engines[1]].st = "returned"
    /\ calls[engines[2]].st = "returned"
    /\ calls[engines[1]].out = <<"u2", "u1">>
    /\ calls[engines[2]].out = <<"u1">>
    /\ Len(all_results) = 3

(***************************************************************************)
(* Properties of POST /v1/search, checked under SpecHttp.                  *)
(***************************************************************************)
\* The signature of a request: stripped query, max_results, fetch_content
\* and engine list.
Signature(req) ==
    [query |-> Strip(req.query), max_results |-> req.max_results,
     fetch_content |-> req.fetch_content, search_engines |-> req.search_engines]

Started(r) == reqs[r].pc # "idle"

Hit(r) == Started(r) /\ reqs[r].cached # {}

Missed(r) == Started(r) /\ reqs[r].cached = {}

\* Request b is identical to request a and started after a had completed,
\* the key not having expired in between.
Follows(b, a) ==
    /\ a # b
    /\ Started(b)
    /\ a \in reqs[b].fresh
    /\ reqs[a].req = reqs[b].req

BothMissedAndWrote(a, b) ==
    /\ a # b
    /\ reqs[a].pc = "done" /\ reqs[b].pc = "done"
    /\ reqs[a].req = reqs[b].req
    /\ Missed(a) /\ Missed(b)
    /\ reqs[a].provider_calls > 0 /\ reqs[b].provider_calls > 0
    /\ reqs[a].results # <<>> /\ reqs[b].results # <<>>

\* C9: whenever two identical requests have both missed the cache, searched
\* and written, both are answered with success, and the key, until it expires
\* or another request writes it, holds the payload one of the two wrote.
C9_BothMissBothSucceed ==
    \A a, b \in Reqs :
        BothMissedAndWrote(a, b) =>
            LET held == {e \in cache : e.key = reqs[a].key}
                other == \E c \in Reqs \ {a, b} :
                            reqs[c].key = reqs[a].key /\ reqs[c].from = c
            IN /\ reqs[a].response = Success(reqs[a].results)
               /\ reqs[b].response = Success(reqs[b].results)
               /\ \A e \in held :
                     e.writer \in {a, b} => e.value = JsonDumps(reqs[e.writer].results)
               /\ (~reqs[a].lapsed /\ ~reqs[b].lapsed /\ ~other) =>
                     \E e \in held : e.writer \in {a, b}

C9_Witness ==
    \E a, b \in Reqs :
        /\ BothMissedAndWrote(a, b)
        /\ reqs[a].results # reqs[b].results
        /\ \E e \in cache : e.key = reqs[a].key /\ e.value = JsonDumps(reqs[b].results)

\* C10: requests of different signatures build different key strings, and no
\* request is answered from an entry that a request of another signature
\* wrote.
C10_KeysSeparateSignatures ==
    \A a, b \in Reqs :
        (Started(a) /\ Started(b)
            /\ Signature(reqs[a].req) # Signature(reqs[b].req)) =>
            /\ reqs[a].key.md5_of # reqs[b].key.md5_of
            /\ (Hit(b) => reqs[b].from # a)

(***************************************************************************)
(* Properties of the access decision, checked under SpecAuth.              *)
(***************************************************************************)
\* C7: a request is answered 403 exactly when its path is neither / nor
\* /v1/health, an API_KEY is configured and it does not carry Bearer
\* credentials equal to API_KEY; without API_KEY a search without an
\* Authorization header is served, and / and /v1/health always are.
C7_AccessDecision ==
    served.status # 0 =>
        LET rq == served.rq
            open == rq.path \in {"/", "/v1/health"}
            good == rq.has_auth /\ rq.scheme = "Bearer" /\ rq.token = API_KEY
        IN /\ served.status = 403 <=> (~open /\ API_KEY # "" /\ ~good)
           /\ (API_KEY = "" /\ rq.path = "/v1/search" /\ ~rq.has_auth) =>
                 served.status = 200
           /\ open => served.status = 200

====
